---- MODULE Spec2Model ----
(***************************************************************************)
(* A model of kibana_mcp/server.py: the one-time construction of the       *)
(* authenticated HTTP client (configure_http_client), the life cycle of    *)
(* run_server, and the tool / resource / prompt handlers that borrow the   *)
(* global client while the serving loop runs.                              *)
(*                                                                         *)
(* Python strings read from the environment are sequences of one-character *)
(* strings, so that strip() and startswith() are computed and not assumed. *)
(***************************************************************************)
EXTENDS Naturals, Integers, Sequences, FiniteSets, Bags, TLC

VARIABLES
    env,          \* os.environ: the four variables configure_http_client reads
    http_client,  \* the module global: 0 is None, i > 0 refers to clients[i]
    clients,      \* every httpx.AsyncClient constructed so far, in order
    pc,           \* where the process is: "main", "mcp.run", "exit" ("called" in SpecConfig)
    configured,   \* what the call of configure_http_client did (NotCalled before it)
    run,          \* bookkeeping of run_server: loop started, how it ended, the shutdown step
    in_flight,    \* bag of requests suspended at their await
    response,     \* what the request that completed last handed to its caller
    backend,      \* the remote platform: its alerts and the requests it holds
    seed          \* the run of testing/seed_data.py that sets up a test environment

vars == <<env, http_client, clients, pc, configured, run, in_flight, response, backend, seed>>

----------------------------------------------------------------------------
(* Bounds of the model *)

\* longest run of blanks put before and after an API key value
MaxPad == 1
\* requests that may be suspended at their await at the same time
MaxInflight == 2

----------------------------------------------------------------------------
(* Python values *)

\* None, for a value that is otherwise a str (a sequence of characters)
None == <<"None">>

\* bool(s) of an Optional[str]: None and "" are falsy, every other str is truthy
Truthy(s) == s # None /\ s # <<>>

IsSpace(c) == c = " "

RECURSIVE lstrip(_)
lstrip(s) == IF s # <<>> /\ IsSpace(Head(s)) THEN lstrip(Tail(s)) ELSE s

RECURSIVE rstrip(_)
rstrip(s) ==
    IF s # <<>> /\ IsSpace(s[Len(s)]) THEN rstrip(SubSeq(s, 1, Len(s) - 1)) ELSE s

\* str.strip()
strip(s) == rstrip(lstrip(s))

\* sub in s
Contains(s, sub) ==
    \E i \in 1..(Len(s) + 1) :
        i + Len(sub) - 1 <= Len(s) /\ SubSeq(s, i, i + Len(sub) - 1) = sub

\* str.startswith(prefix)
startswith(s, prefix) ==
    Len(s) >= Len(prefix) /\ SubSeq(s, 1, Len(prefix)) = prefix

\* the scheme token "ApiKey " of line 44
ApiKeyScheme == <<"A", "p", "i", "K", "e", "y", " ">>

RECURSIVE Blanks(_)
Blanks(n) == IF n = 0 THEN <<>> ELSE <<" ">> \o Blanks(n - 1)

----------------------------------------------------------------------------
(* The environment *)

Urls == {None, <<>>, <<"h">>}

KeyBodies == {<<>>, <<"k">>, ApiKeyScheme \o <<"k">>}

ApiKeys ==
    {None} \cup
    {Blanks(l) \o b \o Blanks(r) : l \in 0..MaxPad, r \in 0..MaxPad, b \in KeyBodies}

Usernames == {None, <<>>, <<"u">>}

Passwords == {None, <<>>, <<"p">>}

AllEnvs ==
    [KIBANA_URL : Urls, KIBANA_API_KEY : ApiKeys,
     KIBANA_USERNAME : Usernames, KIBANA_PASSWORD : Passwords]

\* os.getenv(name)
getenv(e, name) == e[name]

----------------------------------------------------------------------------
(* configure_http_client *)

UrlError == "ValueError: KIBANA_URL environment variable not set."

AuthError == "ValueError: Kibana authentication not configured. Set KIBANA_API_KEY or both KIBANA_USERNAME/PASSWORD."

NoError == "None"

\* line 38: the headers every client starts from
BaseHeaders ==
    ("kbn-xsrf" :> <<"t", "r", "u", "e">>) @@
    ("Content-Type" :> <<"a", "p", "p", "l", "i", "c", "a", "t", "i", "o", "n",
                         "/", "j", "s", "o", "n">>)

\* a plausible slip: the key is prefixed without being trimmed
auth_header_untrimmed(encoded_api_key) ==
    IF startswith(strip(encoded_api_key), ApiKeyScheme)
    THEN encoded_api_key
    ELSE ApiKeyScheme \o encoded_api_key

\* line 44: the Authorization header value built from the API key
auth_header(encoded_api_key) ==
    IF startswith(strip(encoded_api_key), ApiKeyScheme)
    THEN encoded_api_key
    ELSE ApiKeyScheme \o strip(encoded_api_key)

\* a plausible slip: the username/password pair is tried before the API key
auth_method_basic_first(e) ==
    IF Truthy(getenv(e, "KIBANA_USERNAME")) /\ Truthy(getenv(e, "KIBANA_PASSWORD"))
    THEN "Username/Password"
    ELSE IF Truthy(getenv(e, "KIBANA_API_KEY")) THEN "API Key" ELSE "None"

\* a plausible slip: `or` for `and` in the elif of line 47
auth_method_either(e) ==
    IF Truthy(getenv(e, "KIBANA_API_KEY"))
    THEN "API Key"
    ELSE IF Truthy(getenv(e, "KIBANA_USERNAME")) \/ Truthy(getenv(e, "KIBANA_PASSWORD"))
         THEN "Username/Password"
         ELSE "None"

\* lines 42-53: auth_method_used, "None" on the branch that raises
auth_method(e) ==
    IF Truthy(getenv(e, "KIBANA_API_KEY"))
    THEN "API Key"
    ELSE IF Truthy(getenv(e, "KIBANA_USERNAME")) /\ Truthy(getenv(e, "KIBANA_PASSWORD"))
         THEN "Username/Password"
         ELSE "None"

\* lines 42-47: the credential variables whose value a branch condition tests,
\* in the order Python's if / elif / `and` evaluates them
creds_examined(e) ==
    <<"KIBANA_API_KEY">> \o
    (IF Truthy(getenv(e, "KIBANA_API_KEY")) THEN <<>>
     ELSE <<"KIBANA_USERNAME">> \o
          (IF Truthy(getenv(e, "KIBANA_USERNAME")) THEN <<"KIBANA_PASSWORD">> ELSE <<>>))

\* a plausible slip: the pair is passed to the client whenever it is set, also
\* next to an API key
AsyncClient_pair_always(e) ==
    [base_url  |-> getenv(e, "KIBANA_URL"),
     headers   |-> IF auth_method(e) = "API Key"
                   THEN BaseHeaders @@
                        ("Authorization" :> auth_header(getenv(e, "KIBANA_API_KEY")))
                   ELSE BaseHeaders,
     auth      |-> IF Truthy(getenv(e, "KIBANA_USERNAME")) /\ Truthy(getenv(e, "KIBANA_PASSWORD"))
                   THEN <<getenv(e, "KIBANA_USERNAME"), getenv(e, "KIBANA_PASSWORD")>>
                   ELSE None,
     is_closed |-> FALSE]

\* a plausible slip: the API-key branch assigns a new headers dict instead of
\* adding a key to the one of line 38
AsyncClient_headers_replaced(e) ==
    [base_url  |-> getenv(e, "KIBANA_URL"),
     headers   |-> IF auth_method(e) = "API Key"
                   THEN ("Authorization" :> auth_header(getenv(e, "KIBANA_API_KEY")))
                   ELSE BaseHeaders,
     auth      |-> IF auth_method(e) = "Username/Password"
                   THEN <<getenv(e, "KIBANA_USERNAME"), getenv(e, "KIBANA_PASSWORD")>>
                   ELSE None,
     is_closed |-> FALSE]

\* lines 56-58: httpx.AsyncClient(base_url=..., headers=..., timeout=30.0,
\* verify=False, **auth_config); auth is None when auth_config is empty
AsyncClient(e) ==
    [base_url  |-> getenv(e, "KIBANA_URL"),
     headers   |-> IF auth_method(e) = "API Key"
                   THEN BaseHeaders @@
                        ("Authorization" :> auth_header(getenv(e, "KIBANA_API_KEY")))
                   ELSE BaseHeaders,
     auth      |-> IF auth_method(e) = "Username/Password"
                   THEN <<getenv(e, "KIBANA_USERNAME"), getenv(e, "KIBANA_PASSWORD")>>
                   ELSE None,
     is_closed |-> FALSE]

\* a plausible slip: the credentials are resolved before the base URL is checked
configure_creds_first(e) ==
    IF auth_method(e) = "None"
    THEN [raised |-> AuthError, examined |-> creds_examined(e), built |-> FALSE]
    ELSE IF ~Truthy(getenv(e, "KIBANA_URL"))
         THEN [raised |-> UrlError, examined |-> creds_examined(e), built |-> FALSE]
         ELSE [raised |-> NoError, examined |-> creds_examined(e), built |-> TRUE]

\* lines 26-58: the exception the call raises (NoError when it returns), the
\* credentials it examined, and whether it reached the constructor of line 56
configure_outcome(e) ==
    IF ~Truthy(getenv(e, "KIBANA_URL"))
    THEN [raised |-> UrlError, examined |-> <<>>, built |-> FALSE]
    ELSE IF auth_method(e) = "None"
         THEN [raised |-> AuthError, examined |-> creds_examined(e), built |-> FALSE]
         ELSE [raised |-> NoError, examined |-> creds_examined(e), built |-> TRUE]

NotCalled == [raised |-> "not called", examined |-> <<>>, built |-> FALSE]

\* a plausible slip: the client is constructed and assigned before the
\* settings are validated
configure_http_client_assigns_first ==
    /\ configured' = configure_outcome(env)
    /\ clients' = Append(clients, AsyncClient(env))
    /\ http_client' = Len(clients) + 1

\* the state change of one call of configure_http_client(): the global is
\* assigned on line 56 only, after both raise statements
configure_http_client ==
    /\ configured' = configure_outcome(env)
    /\ IF configure_outcome(env).built
       THEN /\ clients' = Append(clients, AsyncClient(env))
            /\ http_client' = Len(clients) + 1
       ELSE UNCHANGED <<clients, http_client>>

----------------------------------------------------------------------------
(* Requests: what the handlers are called with *)

AlertIds == {"a1", "a2"}

TagLists == {<<"x", "y">>, <<>>}

\* line 103
valid_statuses == <<"open", "acknowledged", "closed">>

Statuses == {"open", "acknowledged", "closed", "Open", ""}

\* line 119: the default of limit
DefaultLimit == 20

\* line 120: the default of search_text
DefaultSearchText == "*"

Limits == {5, DefaultLimit}

SearchTexts == {DefaultSearchText, "host:foo"}

PromptNames == {"triage"}

\* the identifiers the resource and the prompt handler are called with: a str,
\* the empty one included
ResourceIds == AlertIds \cup {""}

PromptIds == PromptNames \cup {""}

\* x in lst, for a Python list
InList(x, lst) == \E i \in 1..Len(lst) : lst[i] = x

NoResponse == [handler |-> "None", result |-> "None"]

----------------------------------------------------------------------------
(* The collaborators imported on lines 12-15: kibana_mcp.tools,             *)
(* kibana_mcp.resources and kibana_mcp.prompts                              *)

\* how one backend request can end: the backend call function returns its
\* description, or raises one of the four typed errors
BackendOutcomes == {"ok", "connectivity", "timeout", "rejected", "malformed"}

\* what a backend call ends with: the class of the outcome and, on success,
\* what the backend sent back
Answer(class, result) == [class |-> class, result |-> result]

\* a call that failed has no result
NoResult == <<>>

\* the answers of a backend whose state is not followed
AbstractAnswers ==
    {Answer(c, IF c = "ok" THEN "description" ELSE NoResult) : c \in BackendOutcomes}

\* types.TextContent(type="text", text=...)
TextContent(text) == [type |-> "text", text |-> text]

\* execute_tool_safely(tool_name, tool_impl_func, http_client, **kwargs), up to
\* its first suspension: it calls tool_impl_func(http_client, **kwargs), which
\* sends one backend request and awaits the answer; with no client the call
\* faults at once and the fault is rendered like any other failure
execute_tool_safely(handler, args, tool_name, tool_impl_func, client, kwargs) ==
    IF client = 0
    THEN /\ response' =
              [handler |-> handler, args |-> args, result |-> "returned",
               type |-> "envelope",
               value |-> <<TextContent([tool |-> tool_name, class |-> "internal",
                                        detail |-> "no client"])>>,
               wrapper_calls |-> 1, backend_calls |-> 0, client |-> client]
         /\ UNCHANGED in_flight
    ELSE /\ BagCardinality(in_flight) < MaxInflight
         /\ in_flight' = in_flight (+) SetToBag({
              [handler |-> handler, args |-> args,
               call |-> [tool_name |-> tool_name, tool_impl_func |-> tool_impl_func,
                         kwargs |-> kwargs],
               wrapper_calls |-> 1, backend_calls |-> 1, client |-> client]})
         /\ UNCHANGED response

\* the envelope execute_tool_safely renders once the backend call has ended:
\* one text item, the description on success, the tool name and the failure
\* class otherwise; no outcome is raised again
rendered(call, outcome) ==
    IF outcome.class = "ok"
    THEN <<TextContent([tool |-> call.tool_name, class |-> "ok",
                        detail |-> [by |-> call.tool_impl_func, kwargs |-> call.kwargs,
                                    result |-> outcome.result]])>>
    ELSE <<TextContent([tool |-> call.tool_name, class |-> outcome.class,
                        detail |-> "error"])>>

\* a backend call function that was called without the wrapper: its result
\* reaches the caller as it is, a plain description or the typed error
unwrapped(r, outcome) ==
    IF outcome.class = "ok"
    THEN [handler |-> r.handler, args |-> r.args, result |-> "returned",
          type |-> "str",
          value |-> [by |-> r.call.tool_impl_func, kwargs |-> r.call.kwargs,
                     result |-> outcome.result],
          wrapper_calls |-> r.wrapper_calls, backend_calls |-> r.backend_calls,
          client |-> r.client]
    ELSE [handler |-> r.handler, args |-> r.args, result |-> "raised",
          type |-> "error",
          value |-> outcome.class,
          wrapper_calls |-> r.wrapper_calls, backend_calls |-> r.backend_calls,
          client |-> r.client]

\* the scheme each resolver recognises
SchemeOf(resolver) ==
    IF resolver = "handle_read_resource" THEN "alert://" ELSE "prompt://"

\* handle_read_resource(uri) and handle_get_prompt(uri), up to their first
\* suspension: a scheme the resolver does not know and an empty identifier are
\* a RoutingError, raised at once
resolve(handler, args, resolver, uri) ==
    IF uri[2] = "" \/ uri[1] # SchemeOf(resolver)
    THEN /\ response' =
              [handler |-> handler, args |-> args, result |-> "raised",
               type |-> "error", value |-> "RoutingError", resolver |-> resolver, uri |-> uri]
         /\ UNCHANGED in_flight
    ELSE /\ BagCardinality(in_flight) < MaxInflight
         /\ in_flight' = in_flight (+) SetToBag({
              [handler |-> handler, args |-> args, resolver |-> resolver, uri |-> uri,
               wrapper_calls |-> 0, backend_calls |-> 0]})
         /\ UNCHANGED response

IsTool(r) == r.handler \in {"tag_alert", "adjust_alert_status", "get_alerts"}

----------------------------------------------------------------------------
(* The handlers registered on lines 73-130, each up to its await *)

Serving == pc = "mcp.run"

\* a plausible slip: the handler is wired to the other resolver
read_alert_resource_to_prompt(alert_id) ==
    /\ Serving
    /\ resolve("read_alert_resource", [alert_id |-> alert_id],
               "handle_get_prompt", <<"prompt://", alert_id>>)
    /\ UNCHANGED <<env, http_client, clients, pc, configured, run>>

\* a plausible slip: the handler catches the resolver's error and returns
\* empty content
read_alert_resource_swallows(alert_id) ==
    /\ Serving
    /\ IF alert_id = ""
       THEN /\ response' =
                 [handler |-> "read_alert_resource", args |-> [alert_id |-> alert_id],
                  result |-> "returned", type |-> "content", value |-> "",
                  resolver |-> "handle_read_resource", uri |-> <<"alert://", alert_id>>]
            /\ UNCHANGED in_flight
       ELSE resolve("read_alert_resource", [alert_id |-> alert_id],
                    "handle_read_resource", <<"alert://", alert_id>>)
    /\ UNCHANGED <<env, http_client, clients, pc, configured, run>>

\* lines 73-77
read_alert_resource(alert_id) ==
    /\ Serving
    /\ resolve("read_alert_resource", [alert_id |-> alert_id],
               "handle_read_resource", <<"alert://", alert_id>>)
    /\ UNCHANGED <<env, http_client, clients, pc, configured, run>>

\* lines 79-83
get_kibana_prompt(prompt_name) ==
    /\ Serving
    /\ resolve("get_kibana_prompt", [prompt_name |-> prompt_name],
               "handle_get_prompt", <<"prompt://", prompt_name>>)
    /\ UNCHANGED <<env, http_client, clients, pc, configured, run>>

\* a plausible slip: the backend call function is awaited directly
tag_alert_direct(alert_id, tags) ==
    /\ Serving
    /\ BagCardinality(in_flight) < MaxInflight
    /\ in_flight' = in_flight (+) SetToBag({
         [handler |-> "tag_alert", args |-> [alert_id |-> alert_id, tags |-> tags],
          call |-> [tool_name |-> "tag_alert", tool_impl_func |-> "_call_tag_alert",
                    kwargs |-> [alert_id |-> alert_id, tags_to_add |-> tags]],
          wrapper_calls |-> 0, backend_calls |-> 1, client |-> http_client]})
    /\ UNCHANGED <<env, http_client, clients, pc, configured, run, response>>

\* a plausible slip: the handler builds a client of its own for the request
tag_alert_reconfigures(alert_id, tags) ==
    /\ Serving
    /\ clients' = Append(clients, AsyncClient(env))
    /\ http_client' = Len(clients) + 1
    /\ execute_tool_safely("tag_alert", [alert_id |-> alert_id, tags |-> tags],
                           "tag_alert", "_call_tag_alert", Len(clients) + 1,
                           [alert_id |-> alert_id, tags_to_add |-> tags])
    /\ UNCHANGED <<env, pc, configured, run>>

\* a plausible slip: an empty tag list is rejected in the handler
tag_alert_validates(alert_id, tags) ==
    /\ Serving
    /\ IF tags = <<>>
       THEN /\ response' =
                 [handler |-> "tag_alert", args |-> [alert_id |-> alert_id, tags |-> tags],
                  result |-> "returned", type |-> "envelope",
                  value |-> <<TextContent("No tags given.")>>,
                  wrapper_calls |-> 0, backend_calls |-> 0, client |-> http_client]
            /\ UNCHANGED in_flight
       ELSE execute_tool_safely("tag_alert", [alert_id |-> alert_id, tags |-> tags],
                                "tag_alert", "_call_tag_alert", http_client,
                                [alert_id |-> alert_id, tags_to_add |-> tags])
    /\ UNCHANGED <<env, http_client, clients, pc, configured, run>>

\* lines 87-97
tag_alert(alert_id, tags) ==
    /\ Serving
    /\ execute_tool_safely("tag_alert", [alert_id |-> alert_id, tags |-> tags],
                           "tag_alert", "_call_tag_alert", http_client,
                           [alert_id |-> alert_id, tags_to_add |-> tags])
    /\ UNCHANGED <<env, http_client, clients, pc, configured, run>>

\* line 105: the f-string, kept as its template and the two values it formats
err_msg(new_status) ==
    [template |-> "Invalid status '{new_status}'. Must be one of {valid_statuses}.",
     new_status |-> new_status, valid_statuses |-> valid_statuses]

\* a plausible slip: the status is checked after the wrapper has been called
adjust_alert_status_unchecked(alert_id, new_status) ==
    /\ Serving
    /\ execute_tool_safely("adjust_alert_status",
                           [alert_id |-> alert_id, new_status |-> new_status],
                           "adjust_alert_status", "_call_adjust_alert_status",
                           http_client,
                           [alert_id |-> alert_id, new_status |-> new_status])
    /\ UNCHANGED <<env, http_client, clients, pc, configured, run>>

\* a plausible slip: the wrapper call is pasted from tag_alert and keeps its
\* tool name and backend call function
adjust_alert_status_pasted(alert_id, new_status) ==
    /\ Serving
    /\ IF ~InList(new_status, valid_statuses)
       THEN /\ response' =
                 [handler |-> "adjust_alert_status",
                  args |-> [alert_id |-> alert_id, new_status |-> new_status],
                  result |-> "returned", type |-> "envelope",
                  value |-> <<TextContent(err_msg(new_status))>>,
                  wrapper_calls |-> 0, backend_calls |-> 0, client |-> http_client]
            /\ UNCHANGED in_flight
       ELSE execute_tool_safely("adjust_alert_status",
                                [alert_id |-> alert_id, new_status |-> new_status],
                                "tag_alert", "_call_tag_alert",
                                http_client,
                                [alert_id |-> alert_id, new_status |-> new_status])
    /\ UNCHANGED <<env, http_client, clients, pc, configured, run>>

\* a plausible slip: status changes of one alert are serialised in the adapter,
\* a request waits while another for the same alert is suspended
adjust_alert_status_locked(alert_id, new_status) ==
    /\ Serving
    /\ \A r \in BagToSet(in_flight) :
          r.handler = "adjust_alert_status" => r.args.alert_id # alert_id
    /\ IF ~InList(new_status, valid_statuses)
       THEN /\ response' =
                 [handler |-> "adjust_alert_status",
                  args |-> [alert_id |-> alert_id, new_status |-> new_status],
                  result |-> "returned", type |-> "envelope",
                  value |-> <<TextContent(err_msg(new_status))>>,
                  wrapper_calls |-> 0, backend_calls |-> 0, client |-> http_client]
            /\ UNCHANGED in_flight
       ELSE execute_tool_safely("adjust_alert_status",
                                [alert_id |-> alert_id, new_status |-> new_status],
                                "adjust_alert_status", "_call_adjust_alert_status",
                                http_client,
                                [alert_id |-> alert_id, new_status |-> new_status])
    /\ UNCHANGED <<env, http_client, clients, pc, configured, run>>

\* lines 99-116
adjust_alert_status(alert_id, new_status) ==
    /\ Serving
    /\ IF ~InList(new_status, valid_statuses)
       THEN /\ response' =
                 [handler |-> "adjust_alert_status",
                  args |-> [alert_id |-> alert_id, new_status |-> new_status],
                  result |-> "returned", type |-> "envelope",
                  value |-> <<TextContent(err_msg(new_status))>>,
                  wrapper_calls |-> 0, backend_calls |-> 0, client |-> http_client]
            /\ UNCHANGED in_flight
       ELSE execute_tool_safely("adjust_alert_status",
                                [alert_id |-> alert_id, new_status |-> new_status],
                                "adjust_alert_status", "_call_adjust_alert_status",
                                http_client,
                                [alert_id |-> alert_id, new_status |-> new_status])
    /\ UNCHANGED <<env, http_client, clients, pc, configured, run>>

\* a plausible slip: the default limit is passed on whatever the caller gave
get_alerts_default_limit(limit, search_text) ==
    /\ Serving
    /\ execute_tool_safely("get_alerts", [limit |-> limit, search_text |-> search_text],
                           "get_alerts", "_call_get_alerts", http_client,
                           [limit |-> DefaultLimit, search_text |-> search_text])
    /\ UNCHANGED <<env, http_client, clients, pc, configured, run>>

\* a plausible slip: the handler builds a client of its own for the search
get_alerts_reconfigures(limit, search_text) ==
    /\ Serving
    /\ clients' = Append(clients, AsyncClient(env))
    /\ http_client' = Len(clients) + 1
    /\ execute_tool_safely("get_alerts", [limit |-> limit, search_text |-> search_text],
                           "get_alerts", "_call_get_alerts", Len(clients) + 1,
                           [limit |-> limit, search_text |-> search_text])
    /\ UNCHANGED <<env, pc, configured, run>>

\* lines 118-130
get_alerts(limit, search_text) ==
    /\ Serving
    /\ execute_tool_safely("get_alerts", [limit |-> limit, search_text |-> search_text],
                           "get_alerts", "_call_get_alerts", http_client,
                           [limit |-> limit, search_text |-> search_text])
    /\ UNCHANGED <<env, http_client, clients, pc, configured, run>>

\* the keyword arguments a caller gives to get_alerts: none, one or both
GivenArgs ==
    {[name \in {} |-> 0],
     [limit |-> 1],
     [limit |-> DefaultLimit, search_text |-> "host:foo"]}

\* lines 119-120: a parameter the caller does not give takes its default
bound(given, name, default) == IF name \in DOMAIN given THEN given[name] ELSE default

\* a call of get_alerts with the keyword arguments `given`
call_get_alerts(given) ==
    get_alerts(bound(given, "limit", DefaultLimit),
               bound(given, "search_text", DefaultSearchText))

----------------------------------------------------------------------------
(* The handlers from their await on *)

\* a plausible slip: a failed request drops the shared client
tool_returns_resets(r, outcome) ==
    /\ Serving
    /\ BagIn(r, in_flight)
    /\ IsTool(r)
    /\ in_flight' = in_flight (-) SetToBag({r})
    /\ response' =
         [handler |-> r.handler, args |-> r.args, result |-> "returned",
          type |-> "envelope",
          value |-> rendered(r.call, outcome), call |-> r.call,
          wrapper_calls |-> r.wrapper_calls, backend_calls |-> r.backend_calls,
          client |-> r.client]
    /\ http_client' = IF outcome.class = "ok" THEN http_client ELSE 0
    /\ UNCHANGED <<env, clients, pc, configured, run>>

\* lines 91, 110, 124: `return await execute_tool_safely(...)`: the backend
\* call ends with `outcome` and the handler returns what the wrapper returns
tool_returns(r, outcome) ==
    /\ Serving
    /\ BagIn(r, in_flight)
    /\ IsTool(r)
    /\ in_flight' = in_flight (-) SetToBag({r})
    /\ response' =
         IF r.wrapper_calls = 0
         THEN unwrapped(r, outcome)
         ELSE [handler |-> r.handler, args |-> r.args, result |-> "returned",
               type |-> "envelope",
               value |-> rendered(r.call, outcome), call |-> r.call,
               wrapper_calls |-> r.wrapper_calls, backend_calls |-> r.backend_calls,
               client |-> r.client]
    /\ UNCHANGED <<env, http_client, clients, pc, configured, run>>

\* lines 77 and 83: `return await handle_...(uri=uri)`: the resolver's content
\* is returned and its error, if any, is not caught
resolver_returns(r, outcome) ==
    /\ Serving
    /\ BagIn(r, in_flight)
    /\ ~IsTool(r)
    /\ in_flight' = in_flight (-) SetToBag({r})
    /\ response' =
         [handler |-> r.handler, args |-> r.args,
          result |-> IF outcome = "ok" THEN "returned" ELSE "raised",
          type |-> IF outcome = "ok" THEN "content" ELSE "error",
          value |-> IF outcome = "ok" THEN "content" ELSE outcome,
          resolver |-> r.resolver, uri |-> r.uri]
    /\ UNCHANGED <<env, http_client, clients, pc, configured, run>>

\* how a resolver's await can end: with its content or with an error
ResolverOutcomes == {"ok", "error"}

\* the protocol cancels a suspended request: CancelledError is raised at the
\* await and no handler catches it
cancelled(r) ==
    /\ Serving
    /\ BagIn(r, in_flight)
    /\ in_flight' = in_flight (-) SetToBag({r})
    /\ response' = [handler |-> r.handler, args |-> r.args, result |-> "cancelled",
                     type |-> "error", value |-> "CancelledError"]
    /\ UNCHANGED <<env, http_client, clients, pc, configured, run>>

----------------------------------------------------------------------------
(* run_server *)

NoRun ==
    [loop_started |-> FALSE, loop_outcome |-> "None", shutdown_steps |-> 0,
     close_calls |-> 0, close_raised |-> "None", escaped |-> "None",
     logged |-> "None"]

\* how mcp.run() can end: it returns, it raises an Exception, or it raises a
\* BaseException that `except Exception` does not catch (KeyboardInterrupt)
LoopOutcomes == {"returned", "Exception", "KeyboardInterrupt"}

\* how `await http_client.aclose()` can end when it runs in the fresh event
\* loop of line 150: it completes, or it raises the RuntimeError that line 151
\* expects, with the connections released or not
AcloseOutcomes ==
    {[raised |-> "None", released |-> TRUE],
     [raised |-> "RuntimeError", released |-> TRUE],
     [raised |-> "RuntimeError", released |-> FALSE]}

\* lines 60-67: close_http_client(), called with the global set
close_http_client(a) ==
    /\ clients' = [clients EXCEPT ![http_client].is_closed = a.released]
    /\ http_client' = IF a.raised = "None" THEN 0 ELSE http_client

\* lines 142-143: what `except Exception` logs when mcp.run() ended with
\* loop_outcome; a BaseException passes the clause by
logged_by_except(loop_outcome) ==
    IF loop_outcome = "Exception" THEN loop_outcome ELSE "None"

\* a plausible slip: the cleanup is the last statement of the try block
\* instead of a finally block, so it is skipped when mcp.run() raises
shutdown_in_try(loop_outcome, a) ==
    IF loop_outcome = "returned" /\ http_client # 0
    THEN /\ close_http_client(a)
         /\ run' = [run EXCEPT !.loop_outcome = loop_outcome,
                               !.shutdown_steps = @ + 1,
                               !.close_calls = @ + 1,
                               !.close_raised = a.raised]
    ELSE /\ run' = [run EXCEPT !.loop_outcome = loop_outcome,
                               !.logged = logged_by_except(loop_outcome),
                               !.escaped = IF loop_outcome = "KeyboardInterrupt"
                                           THEN loop_outcome ELSE "None"]
         /\ UNCHANGED <<clients, http_client>>

\* lines 142-155: the except clause and the finally block of run_server
shutdown(loop_outcome, a) ==
    IF http_client # 0
    THEN /\ close_http_client(a)
         /\ run' = [run EXCEPT !.loop_outcome = loop_outcome,
                               !.shutdown_steps = @ + 1,
                               !.close_calls = @ + 1,
                               !.close_raised = a.raised,
                               !.logged = logged_by_except(loop_outcome),
                               !.escaped = IF loop_outcome = "KeyboardInterrupt"
                                           THEN loop_outcome ELSE "None"]
    ELSE /\ run' = [run EXCEPT !.loop_outcome = loop_outcome,
                               !.shutdown_steps = @ + 1,
                               !.logged = logged_by_except(loop_outcome),
                               !.escaped = IF loop_outcome = "KeyboardInterrupt"
                                           THEN loop_outcome ELSE "None"]
         /\ UNCHANGED <<clients, http_client>>

\* a plausible slip: the error of configure_http_client is swallowed and the
\* serving loop is entered all the same
run_server_enter_always ==
    /\ pc = "main"
    /\ configure_http_client
    /\ pc' = "mcp.run"
    /\ run' = [run EXCEPT !.loop_started = TRUE]
    /\ UNCHANGED <<env, in_flight, response>>

\* lines 132-143 and, when configure_http_client raises, lines 144-155: the
\* start of run_server up to the call of mcp.run(). The ValueError is caught on
\* line 142 and the finally block finds the global still None
run_server_enter ==
    /\ pc = "main"
    /\ configure_http_client
    /\ IF configure_outcome(env).raised = NoError
       THEN /\ pc' = "mcp.run"
            /\ run' = [run EXCEPT !.loop_started = TRUE]
       ELSE /\ pc' = "exit"
            /\ run' = [run EXCEPT !.shutdown_steps = @ + 1,
                                  !.logged = "ValueError"]
    /\ UNCHANGED <<env, in_flight, response>>

\* lines 140-155: mcp.run() ends, the requests still suspended in its event
\* loop are dropped with it, and the finally block runs
run_server_leave(loop_outcome, a) ==
    /\ pc = "mcp.run"
    /\ shutdown(loop_outcome, a)
    /\ in_flight' = EmptyBag
    /\ pc' = "exit"
    /\ UNCHANGED <<env, configured, response>>

----------------------------------------------------------------------------
(* The backend: the alerts it stores and the requests it has received *)

\* the search text that selects the alerts of the host an alert came from
HostQuery(id) == IF id = "a1" THEN "host:foo" ELSE "host:bar"

\* the order in which the backend lists its alerts
AlertOrder == <<"a1", "a2">>

\* alerts: what is stored; written_by: the mutation that set the status last,
\* at first the one that created the alert.
\* available: whether requests are accepted or rejected with a non-2xx status.
\* inbox: the requests received and not yet answered to the adapter, in the
\* order they arrived.  delivered: the search whose answer reached the
\* adapter last.
InitialBackend ==
    [alerts    |-> [id \in AlertIds |->
                      [status |-> "open", host |-> HostQuery(id),
                       written_by |-> [alert_id |-> id, new_status |-> "open"]]],
     available |-> TRUE,
     inbox     |-> <<>>,
     delivered |-> [stage |-> "none"]]

\* what a request has not yet, or need not have, seen of the backend
NotSeen == [alerts |-> <<>>, available |-> FALSE]

IsMutation(call) == call.tool_impl_func = "_call_adjust_alert_status"

IsSearch(call) == call.tool_impl_func = "_call_get_alerts"

Min(a, b) == IF a <= b THEN a ELSE b

\* the search of the backend: the alerts the text selects ("*" selects all),
\* in the backend's order, no more than `limit` of them
search(alerts, limit, search_text) ==
    LET Selected(id) == search_text = DefaultSearchText \/ search_text = alerts[id].host
        found == SelectSeq(AlertOrder, Selected)
    IN  [i \in 1..Min(limit, Len(found)) |->
            [id |-> found[i], status |-> alerts[found[i]].status]]

\* what the backend answers to a request in its present state
answer_to(call) ==
    IF ~backend.available THEN Answer("rejected", NoResult)
    ELSE IF IsSearch(call)
         THEN Answer("ok", search(backend.alerts, call.kwargs.limit, call.kwargs.search_text))
         ELSE Answer("ok", "description")

\* the stored alerts once the backend has acted on a request
applied(call) ==
    IF backend.available /\ IsMutation(call)
    THEN [backend.alerts EXCEPT ![call.kwargs.alert_id] =
             [@ EXCEPT !.status = call.kwargs.new_status, !.written_by = call.kwargs]]
    ELSE backend.alerts

\* the requests a step of the adapter has put in flight
Sent ==
    {r \in BagToSet(in_flight') : CopiesIn(r, in_flight') > CopiesIn(r, in_flight)}

\* one entry in the inbox for each backend request of a call
Requests(r) ==
    [i \in 1..r.backend_calls |->
        [call |-> r.call, stage |-> "pending", answer |-> Answer("none", NoResult),
         seen |-> NotSeen]]

\* what a step of the adapter has sent arrives at the backend
backend_receives ==
    /\ backend' = IF Sent = {} THEN backend
                  ELSE [backend EXCEPT !.inbox = @ \o Requests(CHOOSE r \in Sent : TRUE)]
    /\ UNCHANGED seed

\* the backend acts on one of the requests it holds, whichever it takes first;
\* a search is answered from the alerts and the availability it sees
backend_handles(i) ==
    /\ i \in 1..Len(backend.inbox)
    /\ backend.inbox[i].stage = "pending"
    /\ LET e == backend.inbox[i]
       IN  backend' =
             [backend EXCEPT
                !.alerts = applied(e.call),
                !.inbox[i] =
                    [e EXCEPT !.stage = "handled", !.answer = answer_to(e.call),
                              !.seen = IF IsSearch(e.call)
                                       THEN [alerts |-> backend.alerts,
                                             available |-> backend.available]
                                       ELSE @]]
    /\ UNCHANGED <<env, http_client, clients, pc, configured, run, in_flight, response, seed>>

\* the stored alerts change without the adapter: another user of the backend
\* closes or reopens an alert
backend_changes(id) ==
    /\ backend' = [backend EXCEPT !.alerts[id] =
                      [@ EXCEPT !.status = IF @ = "open" THEN "closed" ELSE "open",
                                !.written_by = [alert_id |-> id,
                                                new_status |-> IF backend.alerts[id].status = "open"
                                                               THEN "closed" ELSE "open"]]]
    /\ UNCHANGED <<env, http_client, clients, pc, configured, run, in_flight, response, seed>>

\* the backend starts or stops rejecting requests
backend_switches ==
    /\ backend' = [backend EXCEPT !.available = ~@]
    /\ UNCHANGED <<env, http_client, clients, pc, configured, run, in_flight, response, seed>>

Without(s, i) == [j \in 1..(Len(s) - 1) |-> IF j < i THEN s[j] ELSE s[j + 1]]

\* the answer to request i reaches the call of r that waits for it, and the
\* handler returns
backend_answers(r, i) ==
    /\ i \in 1..Len(backend.inbox)
    /\ backend.inbox[i].stage = "handled"
    /\ backend.inbox[i].call = r.call
    /\ tool_returns(r, backend.inbox[i].answer)
    /\ backend' = [backend EXCEPT
                      !.inbox = Without(@, i),
                      !.delivered = IF IsSearch(r.call) THEN backend.inbox[i] ELSE @]
    /\ UNCHANGED seed


----------------------------------------------------------------------------
(* testing/seed_data.py: the script that starts and seeds a test environment *)

\* lines 19-26 and the timeout= of the polls on lines 249, 274 and 509, in seconds
MAX_KIBANA_WAIT_SECONDS == 180
KIBANA_CHECK_INTERVAL_SECONDS == 5
MAX_ALERT_WAIT_SECONDS == 150
ALERT_CHECK_INTERVAL_SECONDS == 10
MAX_ES_WAIT_SECONDS == 90
ES_CHECK_INTERVAL_SECONDS == 5
EsPollTimeout == 5
KibanaPollTimeout == 5
SignalsPollTimeout == 10

\* pc: where the script is.  clock: seconds since the polling loop that runs
\* took its start_time.  poll: how the last poll of that loop ended.
\* calls: the functions main() has called and what each returned, in order.
\* sent: the requests setup_kibana_user has sent and how each ended.
\* rule: what create_sample_detection_rule met.  exit_status: of the process.
NotStarted ==
    [pc |-> "main", clock |-> 0, poll |-> [raised |-> "no poll", status_code |-> 0],
     calls |-> <<>>, sent |-> <<>>,
     rule |-> "None", exit_status |-> "running"]

\* bool(value) of what a function of the script returns
IsTruthy(value) == value \notin {"None", "False", ""}

\* a plausible slip: the signal wait is skipped when the trigger document was
\* not written
main_after_needs_trigger(fn, value) ==
    CASE fn = "run_compose_command up" ->
           IF IsTruthy(value) THEN "wait_for_elasticsearch" ELSE "run_compose_command logs"
      [] fn = "wait_for_elasticsearch" ->
           IF IsTruthy(value) THEN "setup_kibana_user" ELSE "run_compose_command logs"
      [] fn = "run_compose_command logs" -> "sys.exit(1)"
      [] fn = "setup_kibana_user" ->
           IF IsTruthy(value) THEN "wait_for_kibana" ELSE "sys.exit(1)"
      [] fn = "wait_for_kibana" ->
           IF IsTruthy(value) THEN "create_sample_detection_rule" ELSE "summary"
      [] fn = "create_sample_detection_rule" ->
           IF IsTruthy(value) THEN "write_trigger_document" ELSE "summary"
      [] fn = "write_trigger_document" ->
           IF IsTruthy(value) THEN "wait_for_signals" ELSE "summary"
      [] fn = "wait_for_signals" -> "summary"

\* a plausible slip: Kibana is waited for before its user and role are set up
main_after_kibana_first(fn, value) ==
    CASE fn = "run_compose_command up" ->
           IF IsTruthy(value) THEN "wait_for_elasticsearch" ELSE "run_compose_command logs"
      [] fn = "wait_for_elasticsearch" ->
           IF IsTruthy(value) THEN "wait_for_kibana" ELSE "run_compose_command logs"
      [] fn = "run_compose_command logs" -> "sys.exit(1)"
      [] fn = "wait_for_kibana" ->
           IF IsTruthy(value) THEN "setup_kibana_user" ELSE "summary"
      [] fn = "setup_kibana_user" ->
           IF IsTruthy(value) THEN "create_sample_detection_rule" ELSE "sys.exit(1)"
      [] fn = "create_sample_detection_rule" ->
           IF IsTruthy(value) THEN "write_trigger_document" ELSE "summary"
      [] fn = "write_trigger_document" -> "wait_for_signals"
      [] fn = "wait_for_signals" -> "summary"

\* lines 571-612 of main(): what main() does next when the function it called
\* has returned `value`
main_after(fn, value) ==
    CASE fn = "run_compose_command up" ->
           IF IsTruthy(value) THEN "wait_for_elasticsearch" ELSE "run_compose_command logs"
      [] fn = "wait_for_elasticsearch" ->
           IF IsTruthy(value) THEN "setup_kibana_user" ELSE "run_compose_command logs"
      [] fn = "run_compose_command logs" -> "sys.exit(1)"
      [] fn = "setup_kibana_user" ->
           IF IsTruthy(value) THEN "wait_for_kibana" ELSE "sys.exit(1)"
      [] fn = "wait_for_kibana" ->
           IF IsTruthy(value) THEN "create_sample_detection_rule" ELSE "summary"
      [] fn = "create_sample_detection_rule" ->
           IF IsTruthy(value) THEN "write_trigger_document" ELSE "summary"
      [] fn = "write_trigger_document" -> "wait_for_signals"
      [] fn = "wait_for_signals" -> "summary"

\* the script once the function `fn` has returned `value` to main(): the call
\* is done, main() goes on, and a polling loop that comes next starts its clock
Returned(s, fn, value) ==
    [s EXCEPT !.calls = Append(@, [fn |-> fn, result |-> value]),
              !.pc = IF main_after(fn, value) = "sys.exit(1)" THEN "exit"
                     ELSE main_after(fn, value),
              !.exit_status = IF main_after(fn, value) = "sys.exit(1)" THEN "1" ELSE @,
              !.clock = 0]

\* the rest of the module is unaffected by the script
server == <<env, http_client, clients, pc, configured, run, in_flight, response, backend>>

\* lines 541-563: the prerequisites
Prerequisites == {"ok", "no docker", "no docker compose", "no compose file"}

main(prerequisites) ==
    /\ seed.pc = "main"
    /\ seed' = IF prerequisites = "ok"
               THEN [seed EXCEPT !.pc = "run_compose_command up"]
               ELSE [seed EXCEPT !.pc = "exit", !.exit_status = "1"]
    /\ UNCHANGED server

\* lines 178-195, called on line 573 with "up", "-d"
run_compose_command_up(ok) ==
    /\ seed.pc = "run_compose_command up"
    /\ seed' = Returned(seed, "run_compose_command up", IF ok THEN "True" ELSE "False")
    /\ UNCHANGED server

\* lines 178-195, called on lines 575 and 582 with "logs"; main() ignores the
\* result, and sys.exit(1) follows on lines 576 and 583
run_compose_command_logs(ok) ==
    /\ seed.pc = "run_compose_command logs"
    /\ seed' = Returned(seed, "run_compose_command logs", IF ok THEN "True" ELSE "False")
    /\ UNCHANGED server

\* how a poll of Elasticsearch or Kibana ends: with a status code, or with
\* requests.get raising
StatusCodes == {199, 200, 299, 300, 404, 409, 500}

RequestExceptions == {"ConnectionError", "Timeout", "RequestException"}

PollOutcomes ==
    {[raised |-> "None", status_code |-> c] : c \in {200, 201, 404, 503}}
    \cup {[raised |-> e, status_code |-> 0] : e \in RequestExceptions \cup {"Exception"}}

\* a poll takes from no time at all to its timeout
Took(timeout) == {0, timeout}

\* a plausible slip: any 2xx status counts as up
IsUp_2xx(outcome) ==
    outcome.raised = "None" /\ 200 <= outcome.status_code /\ outcome.status_code < 300

\* lines 250 and 275: `response.status_code == 200` of a poll that did not raise
IsUp(outcome) == outcome.raised = "None" /\ outcome.status_code = 200

\* lines 242-264: one turn of the loop of wait_for_elasticsearch, or its end
wait_for_elasticsearch(outcome, took) ==
    /\ seed.pc = "wait_for_elasticsearch"
    /\ seed' =
         IF seed.clock < MAX_ES_WAIT_SECONDS
         THEN IF IsUp(outcome)
              THEN Returned([seed EXCEPT !.poll = outcome], "wait_for_elasticsearch", "True")
              ELSE [seed EXCEPT !.poll = outcome,
                                !.clock = @ + took + ES_CHECK_INTERVAL_SECONDS]
         ELSE Returned(seed, "wait_for_elasticsearch", "False")
    /\ UNCHANGED server

\* lines 266-290: one turn of the loop of wait_for_kibana, or its end
wait_for_kibana(outcome, took) ==
    /\ seed.pc = "wait_for_kibana"
    /\ seed' =
         IF seed.clock < MAX_KIBANA_WAIT_SECONDS
         THEN IF IsUp(outcome)
              THEN Returned([seed EXCEPT !.poll = outcome], "wait_for_kibana", "True")
              ELSE [seed EXCEPT !.poll = outcome,
                                !.clock = @ + took + KIBANA_CHECK_INTERVAL_SECONDS]
         ELSE Returned(seed, "wait_for_kibana", "False")
    /\ UNCHANGED server

\* how a request of the script ends: with a status code, or with requests
\* raising a RequestException
RequestOutcomes ==
    {[raised |-> "None", status_code |-> c] : c \in StatusCodes}
    \cup {[raised |-> e, status_code |-> 0] : e \in RequestExceptions}

\* lines 319 and 334: `200 <= response.status_code < 300` of a request that
\* did not raise
Is2xx(outcome) ==
    outcome.raised = "None" /\ 200 <= outcome.status_code /\ outcome.status_code < 300



\* a plausible slip: the user is created whatever became of the role
setup_kibana_user_always_user(role, user) ==
    /\ seed.pc = "setup_kibana_user"
    /\ seed' = Returned([seed EXCEPT !.sent = <<[request |-> "PUT role", outcome |-> role],
                                                [request |-> "PUT user", outcome |-> user]>>],
                        "setup_kibana_user",
                        IF Is2xx(role) /\ Is2xx(user) THEN "True" ELSE "False")
    /\ UNCHANGED server

\* lines 292-346: the role request, then the user request if the role request
\* returned 2xx
setup_kibana_user(role, user) ==
    /\ seed.pc = "setup_kibana_user"
    /\ LET role_created_or_updated == Is2xx(role)
           success == IF role_created_or_updated THEN Is2xx(user) ELSE FALSE
       IN  seed' = Returned(
                     [seed EXCEPT !.sent =
                         IF role_created_or_updated
                         THEN <<[request |-> "PUT role", outcome |-> role],
                                [request |-> "PUT user", outcome |-> user]>>
                         ELSE <<[request |-> "PUT role", outcome |-> role]>>],
                     "setup_kibana_user",
                     IF success THEN "True" ELSE "False")
    /\ UNCHANGED server

\* what open() and json.load() make of sample_rule.json, lines 359-365
RuleFiles == {"missing", "unparsable", "not a mapping", "no name", "ok"}

\* what response.json() makes of the answer to the POST, lines 381-382: a
\* mapping with an id, a mapping without one, or no JSON at all
PostBodies == {"rule-new", "no id", "unparsable"}

PostOutcomes ==
    {[raised |-> "None", status_code |-> c, body |-> b] :
        c \in StatusCodes, b \in PostBodies}
    \cup {[raised |-> e, status_code |-> 0, body |-> "None"] : e \in RequestExceptions}

\* what the lookup by name finds, lines 392-396: a first rule with an id, a
\* first rule without one, an empty list, no "data" at all, or no JSON at all
FindBodies == {"rule-old", "no id", "empty", "no data", "unparsable"}

FindOutcomes ==
    {[raised |-> "None", status_code |-> c, body |-> b] :
        c \in {200, 404}, b \in FindBodies}
    \cup {[raised |-> e, status_code |-> 0, body |-> "None"] : e \in RequestExceptions}

\* lines 391-405: the lookup of the existing rule after a 409
found_rule_id(find) ==
    IF find.raised = "None" /\ find.status_code = 200 /\ find.body = "rule-old"
    THEN "rule-old"
    ELSE "None"

\* a plausible slip: a conflict is reported as a failure without a lookup
rule_id_no_lookup(file, post, find) ==
    IF file # "ok" THEN "None"
    ELSE IF post.raised # "None" THEN "None"
    ELSE IF Is2xx(post)
         THEN IF post.body = "rule-new" THEN "rule-new" ELSE "None"
    ELSE "None"

\* lines 352-418: what create_sample_detection_rule returns
rule_id(file, post, find) ==
    IF file # "ok" THEN "None"
    ELSE IF post.raised # "None" THEN "None"
    ELSE IF Is2xx(post)
         THEN IF post.body = "rule-new" THEN "rule-new" ELSE "None"
    ELSE IF post.status_code = 409 THEN found_rule_id(find)
    ELSE "None"

\* lines 352-418: the file is read, the rule is posted, and after a 409 the
\* existing rule is looked up by name
create_sample_detection_rule(file, post, find) ==
    /\ seed.pc = "create_sample_detection_rule"
    /\ LET posted == IF file = "ok" THEN post
                     ELSE [raised |-> "not sent", status_code |-> 0, body |-> "None"]
           looked == IF posted.raised = "None" /\ posted.status_code = 409 THEN find
                     ELSE [raised |-> "not sent", status_code |-> 0, body |-> "None"]
       IN  seed' = Returned([seed EXCEPT !.rule = [file |-> file, post |-> posted,
                                                   find |-> looked]],
                            "create_sample_detection_rule",
                            rule_id(file, posted, looked))
    /\ UNCHANGED server

\* how writing the trigger document ends, lines 420-472
TriggerOutcomes ==
    {"written", "file missing", "file unparsable", "bulk errors", "status not 200",
     "RequestException", "Exception"}

\* lines 420-472
write_trigger_document(outcome) ==
    /\ seed.pc = "write_trigger_document"
    /\ seed' = Returned(seed, "write_trigger_document",
                        IF outcome = "written" THEN "True" ELSE "False")
    /\ UNCHANGED server

\* how a poll for signals ends: a status code and, in the body of a 200, the
\* number of signals; or requests.post or the reading of the body raising
SignalOutcomes ==
    {[raised |-> "None", status_code |-> 200, signal_count |-> n] : n \in {0, 1}}
    \cup {[raised |-> "None", status_code |-> c, signal_count |-> 0] : c \in {404, 500}}
    \cup {[raised |-> e, status_code |-> 0, signal_count |-> 0] :
             e \in {"RequestException", "Exception"}}

\* a plausible slip: a 200 is taken for success whatever the number of signals
HasSignals_any(outcome) == outcome.raised = "None" /\ outcome.status_code = 200

\* lines 511-516: a 200 whose body counts more than 0 signals
HasSignals(outcome) ==
    outcome.raised = "None" /\ outcome.status_code = 200 /\ outcome.signal_count > 0

\* the rule id main() hands to wait_for_signals on line 607
RuleIdOf(s) ==
    LET made == {i \in 1..Len(s.calls) : s.calls[i].fn = "create_sample_detection_rule"}
    IN  IF made = {} THEN "None" ELSE s.calls[CHOOSE i \in made : TRUE].result

\* lines 474-532: the check of the rule id, then one turn of the loop of
\* wait_for_signals, or its end
wait_for_signals(outcome, took) ==
    /\ seed.pc = "wait_for_signals"
    /\ seed' =
         IF ~IsTruthy(RuleIdOf(seed))
         THEN Returned(seed, "wait_for_signals", "False")
         ELSE IF seed.clock < MAX_ALERT_WAIT_SECONDS
         THEN IF HasSignals(outcome)
              THEN Returned([seed EXCEPT !.poll = outcome], "wait_for_signals", "True")
              ELSE [seed EXCEPT !.poll = outcome,
                                !.clock = @ + took + ALERT_CHECK_INTERVAL_SECONDS]
         ELSE Returned(seed, "wait_for_signals", "False")
    /\ UNCHANGED server

\* lines 614-636: the summary is printed and main() returns
summary ==
    /\ seed.pc = "summary"
    /\ seed' = [seed EXCEPT !.pc = "exit", !.exit_status = "0"]
    /\ UNCHANGED server

----------------------------------------------------------------------------
(* Specifications *)

\* the environments the server is started with: the base URL set or not, and
\* no credentials, an API key alone or a username/password pair alone
ServerEnvs ==
    {e \in AllEnvs :
        /\ e.KIBANA_URL \in {None, <<"h">>}
        /\ e.KIBANA_API_KEY \in {None, <<"k">>}
        /\ e.KIBANA_USERNAME \in {None, <<"u">>}
        /\ e.KIBANA_PASSWORD \in {None, <<"p">>}
        /\ (e.KIBANA_USERNAME = None) = (e.KIBANA_PASSWORD = None)
        /\ (e.KIBANA_API_KEY = None) \/ (e.KIBANA_USERNAME = None)}

\* lines 24 and 158-159: the module is loaded and run_server() is about to run
Init ==
    /\ env \in ServerEnvs
    /\ http_client = 0
    /\ clients = <<>>
    /\ pc = "main"
    /\ configured = NotCalled
    /\ run = NoRun
    /\ in_flight = EmptyBag
    /\ response = NoResponse
    /\ backend = InitialBackend
    /\ seed = NotStarted

\* the adapter against a backend whose state is not followed: a backend call
\* may end in any of the outcomes at any time
Next ==
    \/ run_server_enter /\ UNCHANGED <<backend, seed>>
    \/ \E o \in LoopOutcomes, a \in AcloseOutcomes :
          run_server_leave(o, a) /\ UNCHANGED <<backend, seed>>
    \/ \E id \in ResourceIds : read_alert_resource(id) /\ UNCHANGED <<backend, seed>>
    \/ \E n \in PromptIds : get_kibana_prompt(n) /\ UNCHANGED <<backend, seed>>
    \/ \E id \in AlertIds, tags \in TagLists : tag_alert(id, tags) /\ UNCHANGED <<backend, seed>>
    \/ \E id \in AlertIds, s \in Statuses :
          adjust_alert_status(id, s) /\ UNCHANGED <<backend, seed>>
    \/ \E l \in Limits, q \in SearchTexts : get_alerts(l, q) /\ UNCHANGED <<backend, seed>>
    \/ \E r \in BagToSet(in_flight), o \in AbstractAnswers :
          tool_returns(r, o) /\ UNCHANGED <<backend, seed>>
    \/ \E r \in BagToSet(in_flight), o \in ResolverOutcomes :
          resolver_returns(r, o) /\ UNCHANGED <<backend, seed>>
    \/ \E r \in BagToSet(in_flight) : cancelled(r) /\ UNCHANGED <<backend, seed>>

Spec == Init /\ [][Next]_vars

\* configure_http_client() called on its own, over every environment
\* a deployment that is configured: the URL and an API key are set
InitServing ==
    /\ Init
    /\ env.KIBANA_URL # None
    /\ env.KIBANA_API_KEY # None

\* the adapter against a backend that stores the alerts: status changes only
RaceStatuses == {"open", "closed", "Open"}

NextRace ==
    \/ run_server_enter /\ UNCHANGED <<backend, seed>>
    \/ \E id \in AlertIds, s \in RaceStatuses :
          adjust_alert_status(id, s) /\ backend_receives
    \/ \E i \in 1..Len(backend.inbox) : backend_handles(i)
    \/ backend_switches
    \/ \E r \in BagToSet(in_flight), i \in 1..Len(backend.inbox) : backend_answers(r, i)

SpecRace == InitServing /\ [][NextRace]_vars

\* the adapter against a backend that stores the alerts: searches only, while
\* the first alert the backend lists changes
NextSearch ==
    \/ run_server_enter /\ UNCHANGED <<backend, seed>>
    \/ \E g \in GivenArgs : call_get_alerts(g) /\ backend_receives
    \/ \E i \in 1..Len(backend.inbox) : backend_handles(i)
    \/ backend_changes(AlertOrder[1])
    \/ backend_switches
    \/ \E r \in BagToSet(in_flight), i \in 1..Len(backend.inbox) : backend_answers(r, i)

SpecSearch == InitServing /\ [][NextSearch]_vars

\* the script testing/seed_data.py, run on its own (lines 638-639)
NextSeed ==
    \/ \E p \in Prerequisites : main(p)
    \/ \E ok \in BOOLEAN : run_compose_command_up(ok)
    \/ \E ok \in BOOLEAN : run_compose_command_logs(ok)
    \/ \E o \in PollOutcomes, t \in Took(EsPollTimeout) : wait_for_elasticsearch(o, t)
    \/ \E role \in RequestOutcomes, user \in RequestOutcomes : setup_kibana_user(role, user)
    \/ \E o \in PollOutcomes, t \in Took(KibanaPollTimeout) : wait_for_kibana(o, t)
    \/ \E file \in RuleFiles, post \in PostOutcomes, find \in FindOutcomes :
          create_sample_detection_rule(file, post, find)
    \/ \E o \in TriggerOutcomes : write_trigger_document(o)
    \/ \E o \in SignalOutcomes, t \in Took(SignalsPollTimeout) : wait_for_signals(o, t)
    \/ summary

SpecSeed == InitServing /\ [][NextSeed]_vars

\* a polling loop keeps running: the script is one process, nothing suspends
\* it, and each poll and each sleep ends
polls ==
    \/ \E o \in PollOutcomes, t \in Took(EsPollTimeout) : wait_for_elasticsearch(o, t)
    \/ \E o \in PollOutcomes, t \in Took(KibanaPollTimeout) : wait_for_kibana(o, t)
    \/ \E o \in SignalOutcomes, t \in Took(SignalsPollTimeout) : wait_for_signals(o, t)

SpecSeedLive == SpecSeed /\ WF_vars(polls)

InitConfig ==
    /\ env \in AllEnvs
    /\ http_client = 0
    /\ clients = <<>>
    /\ pc = "main"
    /\ configured = NotCalled
    /\ run = NoRun
    /\ in_flight = EmptyBag
    /\ response = NoResponse
    /\ backend = InitialBackend
    /\ seed = NotStarted

call_configure_http_client ==
    /\ pc = "main"
    /\ configure_http_client
    /\ pc' = "called"
    /\ UNCHANGED <<env, run, in_flight, response, backend, seed>>

NextConfig == call_configure_http_client

SpecConfig == InitConfig /\ [][NextConfig]_vars

\* how many calls of close_http_client() that reach line 65 are followed
MaxCloseCalls == 2

\* lines 60-67: one call of close_http_client() by a caller that catches what
\* it raises; with the global None the body of the `if` is skipped.
\* run.close_calls counts the calls of aclose()
call_close_http_client(a) ==
    /\ pc \in {"main", "called"}
    /\ run.close_calls < MaxCloseCalls
    /\ IF http_client # 0
       THEN /\ close_http_client(a)
            /\ run' = [run EXCEPT !.close_calls = @ + 1,
                                  !.close_raised = a.raised]
       ELSE UNCHANGED <<clients, http_client, run>>
    /\ UNCHANGED <<env, pc, configured, in_flight, response, backend, seed>>

\* configure_http_client() once, and close_http_client() any number of times
\* before and after it
NextClose ==
    \/ call_configure_http_client
    \/ \E a \in AcloseOutcomes : call_close_http_client(a)

SpecClose == InitConfig /\ [][NextClose]_vars

----------------------------------------------------------------------------
(* Properties *)

IsEnvelope(v) ==
    /\ Len(v) >= 1
    /\ \A i \in 1..Len(v) : v[i].type = "text"

InFlight == BagToSet(in_flight)

Completed(r) == r.result \in {"returned", "raised"}

\* C1: adjust_alert_status called with a new_status that is not exactly one of
\* "open", "acknowledged", "closed" never reaches the wrapper or the backend (no
\* such request is ever suspended at a backend call) and returns an envelope of
\* exactly one text item, whose text names the rejected value and the valid set.
InvalidStatusRejected ==
    /\ \A r \in InFlight :
          r.handler = "adjust_alert_status" => InList(r.args.new_status, valid_statuses)
    /\ (/\ response.handler = "adjust_alert_status"
        /\ ~InList(response.args.new_status, valid_statuses))
       => /\ response.result = "returned"
          /\ response.wrapper_calls = 0
          /\ response.backend_calls = 0
          /\ response.type = "envelope"
          /\ Len(response.value) = 1
          /\ response.value[1].type = "text"
          /\ response.value[1].text.new_status = response.args.new_status
          /\ response.value[1].text.valid_statuses = <<"open", "acknowledged", "closed">>

InvalidStatusRejectedWitness ==
    /\ response.handler = "adjust_alert_status"
    /\ response.args.new_status = "Open"
    /\ response.result = "returned"
    /\ in_flight # EmptyBag

\* C2: whatever the arguments and however the backend call ends (success,
\* connectivity failure, timeout, rejection, malformed response), a tool call
\* that completes returns a non-empty envelope of text items; nothing is raised
\* to the caller and the serving loop goes on.
ToolAlwaysReturnsEnvelope ==
    (IsTool(response) /\ Completed(response))
    => /\ response.result = "returned"
       /\ response.type = "envelope"
       /\ IsEnvelope(response.value)

ToolAlwaysReturnsEnvelopeWitness ==
    /\ response.handler = "get_alerts"
    /\ response.result = "returned"
    /\ response.type = "envelope"
    /\ response.value[1].text.class = "timeout"
    /\ Serving

\* C3: with a base URL, when an API key and a username/password pair are both
\* present the client carries an Authorization header built from the API key
\* and no basic-auth pair; when only the pair is present the client carries
\* that pair and no Authorization header.
ApiKeyTakesPrecedence ==
    (/\ pc = "called"
     /\ Truthy(env.KIBANA_URL)
     /\ Truthy(env.KIBANA_USERNAME)
     /\ Truthy(env.KIBANA_PASSWORD))
    => /\ configured.raised = NoError
       /\ http_client # 0
       /\ IF Truthy(env.KIBANA_API_KEY)
          THEN /\ "Authorization" \in DOMAIN clients[http_client].headers
               /\ Contains(clients[http_client].headers["Authorization"],
                           strip(env.KIBANA_API_KEY))
               /\ clients[http_client].auth = None
          ELSE /\ "Authorization" \notin DOMAIN clients[http_client].headers
               /\ clients[http_client].auth = <<env.KIBANA_USERNAME, env.KIBANA_PASSWORD>>

ApiKeyTakesPrecedenceWitness ==
    /\ pc = "called"
    /\ env.KIBANA_API_KEY = <<"k">>
    /\ env.KIBANA_USERNAME = <<"u">>
    /\ env.KIBANA_PASSWORD = <<"p">>
    /\ http_client # 0
    /\ clients[http_client].auth = None

\* C4: with a base URL, no API key and not both a username and a password,
\* configure_http_client raises the missing-credentials error and constructs no
\* client.
MissingCredentialsFail ==
    (/\ pc = "called"
     /\ Truthy(env.KIBANA_URL)
     /\ ~Truthy(env.KIBANA_API_KEY)
     /\ ~(Truthy(env.KIBANA_USERNAME) /\ Truthy(env.KIBANA_PASSWORD)))
    => /\ configured.raised = AuthError
       /\ clients = <<>>
       /\ http_client = 0

MissingCredentialsFailWitness ==
    /\ pc = "called"
    /\ Truthy(env.KIBANA_URL)
    /\ env.KIBANA_API_KEY = <<>>
    /\ env.KIBANA_USERNAME = <<"u">>
    /\ env.KIBANA_PASSWORD = None
    /\ configured.raised = AuthError

\* C5: with the base URL absent or empty, configure_http_client raises the
\* missing-base-URL error whatever the credentials are, before it has tested
\* any credential and without constructing a client.
MissingUrlFailsFirst ==
    (pc = "called" /\ ~Truthy(env.KIBANA_URL))
    => /\ configured.raised = UrlError
       /\ configured.examined = <<>>
       /\ clients = <<>>
       /\ http_client = 0

MissingUrlFailsFirstWitness ==
    /\ pc = "called"
    /\ env.KIBANA_URL = <<>>
    /\ Truthy(env.KIBANA_API_KEY)
    /\ Truthy(env.KIBANA_USERNAME)
    /\ configured.raised = UrlError

\* C6: when run_server has returned, every client that was constructed has
\* been closed and the global http_client is None.
NoClientLeftOpen ==
    pc = "exit"
    => /\ http_client = 0
       /\ \A i \in 1..Len(clients) : clients[i].is_closed

\* C7: if configure_http_client fails inside run_server, the serving loop is
\* never started and no tool, resource or prompt request is served in that run.
ConfigFailureNeverServes ==
    configured.raised \in {UrlError, AuthError}
    => /\ ~run.loop_started
       /\ ~Serving
       /\ in_flight = EmptyBag
       /\ response = NoResponse

ConfigFailureNeverServesWitness ==
    /\ pc = "exit"
    /\ configured.raised = AuthError
    /\ run.shutdown_steps = 1

\* C8: the client is constructed once, before the serving loop starts, and
\* never again: while the loop runs the global refers to that first client, and
\* every request is handed that client, never None.
ClientBuiltOnceBeforeServing ==
    /\ Len(clients) <= 1
    /\ run.loop_started => (Len(clients) = 1 /\ configured.built)
    /\ Serving => http_client = 1
    /\ \A r \in InFlight : IsTool(r) => r.client = 1
    /\ (IsTool(response) /\ Completed(response)) => response.client = 1

ClientBuiltOnceBeforeServingWitness ==
    /\ Serving
    /\ IsTool(response)
    /\ Completed(response)
    /\ response.client = 1
    /\ \E r \in InFlight : IsTool(r) /\ r.client = 1

\* C9: a backend call is made only from inside execute_tool_safely, and a tool
\* request calls the wrapper at most once, hence issues at most one backend
\* request.
WrapperIsSolePath ==
    /\ \A r \in InFlight :
          IsTool(r) => /\ r.wrapper_calls = 1
                       /\ r.backend_calls <= r.wrapper_calls
    /\ (IsTool(response) /\ Completed(response))
       => /\ response.wrapper_calls <= 1
          /\ response.backend_calls <= response.wrapper_calls

WrapperIsSolePathWitness ==
    /\ response.handler = "tag_alert"
    /\ Completed(response)
    /\ response.wrapper_calls = 1
    /\ response.backend_calls = 1
    /\ \E r \in InFlight : r.handler = "adjust_alert_status" /\ r.backend_calls = 1

\* C10: while the serving loop runs, no step of any request (started,
\* answered, failed or cancelled, in any interleaving) changes the global
\* http_client or the client it refers to.
SharedClientUntouched ==
    [][(Serving /\ Serving') => (http_client' = http_client /\ clients' = clients)]_vars

SharedClientUntouchedWitness ==
    /\ Serving
    /\ response.result = "cancelled"
    /\ \E r \in InFlight : IsTool(r)
    /\ http_client = 1
    /\ ~clients[1].is_closed


\* the value is the scheme token "ApiKey " followed by anything, after any
\* number of leading blanks
CarriesScheme(key) ==
    \E n \in 0..Len(key) :
        /\ \A i \in 1..n : key[i] = " "
        /\ n + Len(ApiKeyScheme) <= Len(key)
        /\ \A j \in 1..Len(ApiKeyScheme) : key[n + j] = ApiKeyScheme[j]

\* the key without the blanks at its two ends
Trimmed(key) ==
    LET idx == {i \in 1..Len(key) : key[i] # " "}
    IN  IF idx = {} THEN <<>>
        ELSE SubSeq(key, CHOOSE i \in idx : \A j \in idx : i <= j,
                         CHOOSE i \in idx : \A j \in idx : i >= j)

ExactlyOneAuthMechanism ==
    \A i \in 1..Len(clients) :
        ("Authorization" \in DOMAIN clients[i].headers) # (clients[i].auth # None)

ExactlyOneAuthMechanismWitness ==
    /\ pc = "called"
    /\ Truthy(env.KIBANA_API_KEY)
    /\ Truthy(env.KIBANA_USERNAME)
    /\ Truthy(env.KIBANA_PASSWORD)
    /\ Len(clients) = 1
    /\ "Authorization" \in DOMAIN clients[1].headers

\* C14: every client that is constructed carries the header kbn-xsrf: true and
\* the header Content-Type: application/json, whichever authentication method
\* was selected.
FixedHeadersAlwaysPresent ==
    \A i \in 1..Len(clients) :
        /\ "kbn-xsrf" \in DOMAIN clients[i].headers
        /\ clients[i].headers["kbn-xsrf"] = <<"t", "r", "u", "e">>
        /\ "Content-Type" \in DOMAIN clients[i].headers
        /\ clients[i].headers["Content-Type"] =
              <<"a", "p", "p", "l", "i", "c", "a", "t", "i", "o", "n",
                "/", "j", "s", "o", "n">>

FixedHeadersAlwaysPresentWitness ==
    /\ pc = "called"
    /\ Len(clients) = 1
    /\ "Authorization" \in DOMAIN clients[1].headers
    /\ "kbn-xsrf" \in DOMAIN clients[1].headers


\* the requests of the resource and of the prompt handler that are suspended
\* or have just completed
Resolutions ==
    {r \in InFlight : ~IsTool(r)} \cup
    (IF response.handler \in {"read_alert_resource", "get_kibana_prompt"}
        /\ Completed(response)
     THEN {response} ELSE {})

\* the answer of the backend call that a one-item envelope of the wrapper renders
AnswerIn(v) ==
    Answer(v[1].text.class,
           IF v[1].text.class = "ok" THEN v[1].text.detail.result ELSE NoResult)

\* the tool requests that are suspended in the wrapper or have just completed
ToolCalls(handler) ==
    {r \in InFlight : r.handler = handler} \cup
    (IF response.handler = handler /\ Completed(response) THEN {response} ELSE {})

\* C15: an alert:// URI reaches handle_read_resource only and a prompt:// URI
\* reaches handle_get_prompt only, and the resolver is given the scheme
\* followed by the identifier exactly as it was supplied.
UriReachesItsResolver ==
    \A r \in Resolutions :
        /\ r.uri[1] = "alert://" <=> r.resolver = "handle_read_resource"
        /\ r.uri[1] = "prompt://" <=> r.resolver = "handle_get_prompt"
        /\ r.handler = "read_alert_resource"
           => r.uri = <<"alert://", r.args.alert_id>> /\ r.resolver = "handle_read_resource"
        /\ r.handler = "get_kibana_prompt"
           => r.uri = <<"prompt://", r.args.prompt_name>> /\ r.resolver = "handle_get_prompt"

UriReachesItsResolverWitness ==
    /\ response.handler = "read_alert_resource"
    /\ response.result = "returned"
    /\ response.uri = <<"alert://", "a2">>
    /\ \E r \in InFlight : r.handler = "get_kibana_prompt" /\ r.uri = <<"prompt://", "triage">>

ValidStatusDelegatesOnce ==
    \A r \in ToolCalls("adjust_alert_status") :
        InList(r.args.new_status, valid_statuses)
        => /\ r.wrapper_calls = 1
           /\ r.call.tool_name = "adjust_alert_status"
           /\ r.call.tool_impl_func = "_call_adjust_alert_status"
           /\ r.call.kwargs = [alert_id |-> r.args.alert_id,
                               new_status |-> r.args.new_status]
           /\ r \notin InFlight
              => /\ r.result = "returned"
                 /\ r.type = "envelope"
                 /\ Len(r.value) = 1
                 /\ r.value = rendered(r.call, AnswerIn(r.value))

ValidStatusDelegatesOnceWitness ==
    /\ response.handler = "adjust_alert_status"
    /\ response.args = [alert_id |-> "a2", new_status |-> "acknowledged"]
    /\ response.result = "returned"
    /\ response.value[1].text.class = "ok"
    /\ response.value[1].text.detail.kwargs = response.args
    /\ response.value = rendered(response.call, Answer("ok", "description"))

\* C18: tag_alert validates nothing: for every alert_id and every tags,
\* the empty list included, it calls the wrapper exactly once, with the tool
\* name 'tag_alert', the same alert_id and the tags as tags_to_add, and returns
\* the wrapper's envelope unchanged.
TagAlertDelegatesAlways ==
    \A r \in ToolCalls("tag_alert") :
        /\ r.wrapper_calls = 1
        /\ r.call.tool_name = "tag_alert"
        /\ r.call.tool_impl_func = "_call_tag_alert"
        /\ r.call.kwargs = [alert_id |-> r.args.alert_id, tags_to_add |-> r.args.tags]
        /\ r \notin InFlight
           => /\ r.result = "returned"
              /\ r.type = "envelope"
              /\ Len(r.value) = 1
              /\ r.value = rendered(r.call, AnswerIn(r.value))

TagAlertDelegatesAlwaysWitness ==
    /\ response.handler = "tag_alert"
    /\ response.args = [alert_id |-> "a1", tags |-> <<>>]
    /\ response.result = "returned"
    /\ response.wrapper_calls = 1
    /\ response.value[1].text.class = "ok"
    /\ response.value[1].text.detail.kwargs.tags_to_add = <<>>


\* the state of the adapter that outlives a request
adapter == <<env, http_client, clients, pc, configured, run>>

\* the positions of the inbox that hold a backend request of the call
RequestsOf(call) == {i \in 1..Len(backend.inbox) : backend.inbox[i].call = call}

StatusChange(id, s) ==
    [tool_name |-> "adjust_alert_status", tool_impl_func |-> "_call_adjust_alert_status",
     kwargs |-> [alert_id |-> id, new_status |-> s]]

\* C11: two status changes of one alert that run at the same time are not
\* ordered by the adapter and leave nothing behind in it: a status change with
\* a valid status starts whatever else is suspended, for the same alert too,
\* and starting it changes no state of the adapter and no alert, and puts one
\* request at the backend; each suspended status change has exactly one
\* request at the backend; the backend may act on any request it holds,
\* whatever the order they arrived in, and acting on one sets the status of
\* its alert and of no other; and the status of an alert is the status of the
\* mutation the backend applied to it last.
ConcurrentStatusChangesRace ==
    /\ \A id \in AlertIds, s \in RaceStatuses :
          (Serving /\ BagCardinality(in_flight) < MaxInflight)
            => ENABLED /\ adjust_alert_status(id, s)
                       /\ backend_receives
                       /\ adapter' = adapter
                       /\ backend'.alerts = backend.alerts
                       /\ (InList(s, valid_statuses) /\ http_client # 0)
                            => backend'.inbox = Append(backend.inbox,
                                  [call |-> StatusChange(id, s), stage |-> "pending",
                                   answer |-> Answer("none", NoResult),
                                   seen |-> NotSeen])
    /\ \A r \in InFlight :
          r.handler = "adjust_alert_status"
            => Cardinality(RequestsOf(r.call)) = CopiesIn(r, in_flight)
    /\ \A i \in 1..Len(backend.inbox) :
          (backend.inbox[i].stage = "pending" /\ IsMutation(backend.inbox[i].call))
            => LET k == backend.inbox[i].call.kwargs
               IN  ENABLED /\ backend_handles(i)
                           /\ backend.available
                                => backend'.alerts[k.alert_id].status = k.new_status
                           /\ \A id \in AlertIds \ {k.alert_id} :
                                 backend'.alerts[id] = backend.alerts[id]
    /\ \A id \in AlertIds :
          backend.alerts[id].status = backend.alerts[id].written_by.new_status

\* two status changes of one alert are both applied, and the one that was
\* sent first was applied last
ConcurrentStatusChangesRaceWitness ==
    /\ Len(backend.inbox) = 2
    /\ LET first == backend.inbox[1]
           second == backend.inbox[2]
       IN  /\ IsMutation(first.call) /\ IsMutation(second.call)
           /\ first.call.kwargs.alert_id = second.call.kwargs.alert_id
           /\ first.call.kwargs.new_status # second.call.kwargs.new_status
           /\ first.answer.class = "ok" /\ second.answer.class = "ok"
           /\ backend.alerts[first.call.kwargs.alert_id].written_by = first.call.kwargs
           /\ backend.alerts[first.call.kwargs.alert_id].status = first.call.kwargs.new_status
           /\ BagCardinality(in_flight) = 2


SearchCall(kwargs) ==
    [tool_name |-> "get_alerts", tool_impl_func |-> "_call_get_alerts", kwargs |-> kwargs]

\* C19: get_alerts hands limit and search_text to the backend search as the
\* caller gave them, 20 and "*" for the ones the caller left out, and returns
\* what the backend answered as it is: the same records in the same order,
\* none dropped; the backend answers with no more than limit records, so the
\* rendering holds no more than limit records.
SearchPassedThrough ==
    [][ /\ \A g \in GivenArgs :
              (call_get_alerts(g) /\ backend_receives /\ http_client # 0)
                => backend'.inbox = Append(backend.inbox,
                     [call |-> SearchCall(
                         [limit |-> IF "limit" \in DOMAIN g THEN g.limit ELSE 20,
                          search_text |-> IF "search_text" \in DOMAIN g
                                          THEN g.search_text ELSE "*"]),
                      stage |-> "pending", answer |-> Answer("none", NoResult),
                      seen |-> NotSeen])
        /\ \A r \in InFlight, i \in 1..Len(backend.inbox) :
              (r.handler = "get_alerts" /\ backend_answers(r, i))
                => LET a == backend.inbox[i].answer
                   IN  /\ response'.type = "envelope"
                       /\ Len(response'.value) = 1
                       /\ response'.value[1].text.class = a.class
                       /\ a.class = "ok"
                            => /\ response'.value[1].text.detail.result = a.result
                               /\ Len(response'.value[1].text.detail.result) <= r.args.limit
      ]_vars

\* a search for every alert with limit 1, against a backend that holds two,
\* returned the first alert only
SearchPassedThroughWitness ==
    /\ response.handler = "get_alerts"
    /\ Completed(response)
    /\ response.args = [limit |-> 1, search_text |-> "*"]
    /\ response.type = "envelope"
    /\ response.value[1].text.class = "ok"
    /\ Len(response.value[1].text.detail.result) = 1
    /\ response.value[1].text.detail.result[1].id = "a1"
    /\ response.value[1].text.detail.kwargs = response.args

\* the envelope of a search the backend has answered
Envelope(entry) == rendered(entry.call, entry.answer)

\* what a search must leave as it is
untouched == <<adapter, backend.alerts, backend.available>>

\* the searches the backend has answered: those whose answer waits in the
\* inbox and the one that returned last
Answered ==
    {backend.inbox[i] : i \in {j \in 1..Len(backend.inbox) :
                                 /\ backend.inbox[j].stage = "handled"
                                 /\ IsSearch(backend.inbox[j].call)}}
    \cup (IF backend.delivered.stage = "handled"
          THEN IF IsSearch(backend.delivered.call) THEN {backend.delivered} ELSE {}
          ELSE {})

\* C20: get_alerts reads only and gives the same again: no step of a search
\* (the call, the backend acting on it, the return) changes the stored alerts,
\* the availability of the backend, or the state of the adapter; a search
\* returns the envelope of the answer the backend gave it; and two searches with
\* the same arguments that saw the same alerts and the same availability have
\* the same envelope, whatever other searches are answered beside them.
SearchReadOnlyIdempotent ==
    [][ /\ \A g \in GivenArgs :
              (call_get_alerts(g) /\ backend_receives) => untouched' = untouched
        /\ \A i \in 1..Len(backend.inbox) :
              (backend_handles(i) /\ IsSearch(backend.inbox[i].call))
                => untouched' = untouched
        /\ \A r \in InFlight, i \in 1..Len(backend.inbox) :
              (r.handler = "get_alerts" /\ backend_answers(r, i))
                => /\ untouched' = untouched
                   /\ response'.value = Envelope(backend.inbox[i])
                   /\ backend.inbox[i].call.kwargs = r.args
        /\ \A e1, e2 \in Answered :
              (e1.call.kwargs = e2.call.kwargs /\ e1.seen = e2.seen)
                => Envelope(e1) = Envelope(e2)
      ]_vars

\* a search returned; the same search was made again while another search was
\* at the backend, saw the same alerts and availability, and its answer gives
\* the envelope the first one returned
SearchReadOnlyIdempotentWitness ==
    /\ response.handler = "get_alerts"
    /\ Completed(response)
    /\ response.type = "envelope"
    /\ response.value[1].text.class = "ok"
    /\ backend.delivered.stage = "handled"
    /\ response.value = Envelope(backend.delivered)
    /\ Len(backend.inbox) = 2
    /\ backend.inbox[1].stage = "handled"
    /\ backend.inbox[2].stage = "handled"
    /\ IsSearch(backend.inbox[1].call)
    /\ backend.inbox[1].call.kwargs # response.args
    /\ backend.inbox[2].call = backend.delivered.call
    /\ backend.inbox[2].call.kwargs = response.args
    /\ backend.inbox[2].seen = backend.delivered.seen
    /\ Envelope(backend.inbox[2]) = response.value

----------------------------------------------------------------------------
(* Properties of testing/seed_data.py *)

\* the calls of `fn` that main() has completed
CallsOf(fn) == {i \in 1..Len(seed.calls) : seed.calls[i].fn = fn}

HasReturned(fn) == CallsOf(fn) # {}

\* what the call of `fn` returned (main() calls each function once at most,
\* run_compose_command aside)
ResultOf(fn) == seed.calls[CHOOSE i \in CallsOf(fn) : TRUE].result

\* a request that came back with a status from 200 to 299
Succeeded(outcome) == outcome.raised = "None" /\ outcome.status_code \in 200..299

\* C21: when setup_kibana_user has returned, the role request was sent first;
\* the user request was sent if and only if the role request came back with a
\* 2xx status; the function returned True if both requests came back with a
\* 2xx status and False in every other case, a request that raised a request
\* exception included: it returned, it did not raise.
UserOnlyAfterRole ==
    HasReturned("setup_kibana_user")
      => /\ Cardinality(CallsOf("setup_kibana_user")) = 1
         /\ Len(seed.sent) \in {1, 2}
         /\ seed.sent[1].request = "PUT role"
         /\ (Len(seed.sent) = 2) = Succeeded(seed.sent[1].outcome)
         /\ Len(seed.sent) = 2 => seed.sent[2].request = "PUT user"
         /\ ResultOf("setup_kibana_user") \in {"True", "False"}
         /\ (ResultOf("setup_kibana_user") = "True")
              = (Len(seed.sent) = 2 /\ \A i \in 1..2 : Succeeded(seed.sent[i].outcome))

\* the role request came back with status 300, no user request followed, and
\* the function returned False
UserOnlyAfterRoleWitness ==
    /\ HasReturned("setup_kibana_user")
    /\ ResultOf("setup_kibana_user") = "False"
    /\ Len(seed.sent) = 1
    /\ seed.sent[1].outcome.raised = "None"
    /\ seed.sent[1].outcome.status_code = 300


\* the names of the functions main() has called, in the order of the calls
Order == [i \in 1..Len(seed.calls) |-> seed.calls[i].fn]

\* the position of the call of `fn` among the calls of main()
IndexOf(fn) == CHOOSE i \in CallsOf(fn) : TRUE

RuleId == ResultOf("create_sample_detection_rule")

\* C22: in main() the detection rule is created before the trigger document
\* is written and the trigger document is written before signals are waited
\* for, each once at most; when rule creation returned no rule id, the trigger
\* document is never written and signals are never waited for; when the write
\* of the trigger document has returned, whether it failed or not, the wait
\* for signals is what runs next.
RuleThenTriggerThenSignals ==
    /\ \A fn \in {"create_sample_detection_rule", "write_trigger_document",
                   "wait_for_signals"} : Cardinality(CallsOf(fn)) <= 1
    /\ (HasReturned("write_trigger_document") \/ seed.pc = "write_trigger_document")
         => /\ HasReturned("create_sample_detection_rule")
            /\ RuleId \notin {"None", ""}
            /\ HasReturned("write_trigger_document")
                 => IndexOf("write_trigger_document")
                      = IndexOf("create_sample_detection_rule") + 1
    /\ (HasReturned("wait_for_signals") \/ seed.pc = "wait_for_signals")
         => /\ HasReturned("write_trigger_document")
            /\ HasReturned("wait_for_signals")
                 => IndexOf("wait_for_signals") = IndexOf("write_trigger_document") + 1
    /\ (HasReturned("create_sample_detection_rule") /\ RuleId \in {"None", ""})
         => /\ ~HasReturned("write_trigger_document")
            /\ ~HasReturned("wait_for_signals")
            /\ seed.pc \in {"summary", "exit"}
    /\ HasReturned("write_trigger_document")
         => \/ seed.pc = "wait_for_signals"
            \/ HasReturned("wait_for_signals")

\* the rule was created, the write of the trigger document failed, and the
\* wait for signals ran all the same
RuleThenTriggerThenSignalsWitness ==
    /\ HasReturned("write_trigger_document")
    /\ ResultOf("write_trigger_document") = "False"
    /\ HasReturned("wait_for_signals")
    /\ IndexOf("wait_for_signals") = IndexOf("write_trigger_document") + 1

\* the four steps that come before rule creation, each successful
Preparation ==
    <<[fn |-> "run_compose_command up", result |-> "True"],
      [fn |-> "wait_for_elasticsearch", result |-> "True"],
      [fn |-> "setup_kibana_user", result |-> "True"],
      [fn |-> "wait_for_kibana", result |-> "True"]>>

TestSteps == {"create_sample_detection_rule", "write_trigger_document", "wait_for_signals"}

\* C23: rule creation is attempted only when the Docker services were
\* started, Elasticsearch became ready, the user and role were set up and
\* Kibana became ready, in this order and each with success; when one of the
\* first three fails no later step runs (the logs of the services are fetched
\* after the first two) and the script exits with status 1; when Kibana does
\* not become ready, rule creation and the test are skipped and the script
\* goes to the summary and ends with status 0.
RuleCreationAfterFourSteps ==
    /\ (HasReturned("create_sample_detection_rule")
           \/ seed.pc = "create_sample_detection_rule")
         => /\ Len(seed.calls) >= 4
            /\ SubSeq(seed.calls, 1, 4) = Preparation
    /\ \A i \in 1..3 :
          (/\ Len(seed.calls) >= i
           /\ SubSeq(seed.calls, 1, i - 1) = SubSeq(Preparation, 1, i - 1)
           /\ seed.calls[i] = [fn |-> Preparation[i].fn, result |-> "False"])
            => /\ \A j \in (i + 1)..Len(seed.calls) :
                    seed.calls[j].fn = "run_compose_command logs"
               /\ Len(seed.calls) <= i + 1
               /\ seed.pc \in {"run_compose_command logs", "exit"}
               /\ seed.pc = "exit" => seed.exit_status = "1"
    /\ (HasReturned("wait_for_kibana") /\ ResultOf("wait_for_kibana") = "False")
         => /\ \A fn \in TestSteps : ~HasReturned(fn)
            /\ seed.pc \in {"summary", "exit"}
            /\ seed.pc = "exit" => seed.exit_status = "0"

\* Kibana did not become ready: no rule was created, and the script ended
\* after the summary
RuleCreationAfterFourStepsWitness ==
    /\ HasReturned("wait_for_kibana")
    /\ ResultOf("wait_for_kibana") = "False"
    /\ Len(seed.calls) = 4
    /\ seed.pc = "exit"
    /\ seed.exit_status = "0"


\* the polling loops, the seconds each may take, and what its poll must
\* bring for the loop to end with True
Loops == {"wait_for_elasticsearch", "wait_for_kibana", "wait_for_signals"}

Deadline(fn) ==
    CASE fn = "wait_for_elasticsearch" -> 90
      [] fn = "wait_for_kibana" -> 180
      [] fn = "wait_for_signals" -> 150

Met(fn, poll) ==
    /\ poll.raised = "None"
    /\ poll.status_code = 200
    /\ fn = "wait_for_signals" => poll.signal_count > 0

\* C24: each polling loop ends.  A turn of a loop that does not end it was
\* made before the deadline, its poll did not meet the success condition
\* (status 200; for signals status 200 and more than 0 signals), and the clock
\* has advanced; the loop returns True on a poll made before the deadline that
\* meets the condition, and False only when the deadline has passed; a poll
\* that raises is a poll that failed, the loop goes on or returns and nothing
\* else; and a loop that runs is left at some time.
PollingLoopsTerminate ==
    /\ [][ \A fn \in Loops :
              seed.pc = fn
                => IF seed'.pc = fn
                   THEN /\ seed.clock < Deadline(fn)
                        /\ ~Met(fn, seed'.poll)
                        /\ seed'.clock > seed.clock
                        /\ seed'.calls = seed.calls
                   ELSE /\ Len(seed'.calls) = Len(seed.calls) + 1
                        /\ seed'.calls[Len(seed'.calls)].fn = fn
                        /\ LET result == seed'.calls[Len(seed'.calls)].result
                           IN  /\ result \in {"True", "False"}
                               /\ result = "True"
                                    => seed.clock < Deadline(fn) /\ Met(fn, seed'.poll)
                               /\ result = "False"
                                    => seed.clock >= Deadline(fn) /\ seed'.poll = seed.poll
         ]_vars
    /\ \A fn \in Loops : (seed.pc = fn) ~> (seed.pc # fn)

\* Kibana was polled until the deadline had passed, the last poll timed out,
\* and wait_for_kibana returned False
PollingLoopsTerminateWitness ==
    /\ HasReturned("wait_for_kibana")
    /\ ResultOf("wait_for_kibana") = "False"
    /\ seed.poll.raised = "Timeout"
    /\ seed.pc = "summary"


\* C25: when create_sample_detection_rule has returned, it returned the id
\* the answer to the POST carried if that answer had a 2xx status (None when
\* the answer carried no id); after a 409 it returned the id of the rule the
\* lookup by name found, and None when the lookup raised, came back with
\* another status than 200 or found no rule; and it returned None, and did
\* not raise, when the file was missing, unparsable or without a rule name,
\* when the POST raised, and on every other status.  The POST is sent only
\* when the file gave a rule name, the lookup only after a 409.
RuleIdOrNone ==
    HasReturned("create_sample_detection_rule")
      => LET file == seed.rule.file
             post == seed.rule.post
             find == seed.rule.find
         IN  /\ RuleId \in {"rule-new", "rule-old", "None"}
             /\ (post.raised = "not sent") = (file # "ok")
             /\ (find.raised = "not sent")
                  = ~(post.raised = "None" /\ post.status_code = 409)
             /\ file # "ok" => RuleId = "None"
             /\ post.raised \in RequestExceptions => RuleId = "None"
             /\ Succeeded(post)
                  => RuleId = (IF post.body = "rule-new" THEN "rule-new" ELSE "None")
             /\ (post.raised = "None" /\ post.status_code = 409)
                  => RuleId = (IF /\ find.raised = "None"
                                  /\ find.status_code = 200
                                  /\ find.body = "rule-old"
                               THEN "rule-old" ELSE "None")
             /\ (post.raised = "None" /\ post.status_code \notin (200..299) \cup {409})
                  => RuleId = "None"

\* the POST came back with 409, the lookup found the existing rule, and its
\* id was returned
RuleIdOrNoneWitness ==
    /\ HasReturned("create_sample_detection_rule")
    /\ seed.rule.post.status_code = 409
    /\ seed.rule.find.status_code = 200
    /\ seed.rule.find.body = "rule-old"
    /\ RuleId = "rule-old"


----------------------------------------------------------------------------
(* Properties of configure_http_client and run_server, continued *)

\* C26: whenever configure_http_client selects API-key authentication, the
\* Authorization header of the client begins with "ApiKey ", with nothing
\* before it, whatever blanks the key has at its ends.
HeaderBeginsWithScheme ==
    (pc = "called" /\ Truthy(env.KIBANA_URL) /\ Truthy(env.KIBANA_API_KEY))
    => /\ http_client # 0
       /\ "Authorization" \in DOMAIN clients[http_client].headers
       /\ LET header == clients[http_client].headers["Authorization"]
          IN  /\ Len(header) >= 7
              /\ SubSeq(header, 1, 7) = <<"A", "p", "i", "K", "e", "y", " ">>


\* C27: a call of configure_http_client that fails, for the missing URL or for
\* the missing credentials, assigns nothing: no client is constructed and the
\* global is None as run_server left it on line 135; the shutdown step of that
\* run finds it None and close_http_client is not called.
FailedConfigureAssignsNothing ==
    configured.raised \in {UrlError, AuthError}
    => /\ http_client = 0
       /\ clients = <<>>
       /\ ~configured.built
       /\ pc = "exit"
       /\ run.shutdown_steps = 1
       /\ run.close_calls = 0
       /\ run.close_raised = "None"

\* run_server has ended after configure_http_client failed for the missing
\* URL: the global is None and nothing was closed
FailedConfigureAssignsNothingWitness ==
    /\ pc = "exit"
    /\ configured.raised = UrlError
    /\ http_client = 0
    /\ clients = <<>>
    /\ run.close_calls = 0


\* C28 as stated: run_server has ended => nothing that configure_http_client
\* or mcp.run() raised has reached the caller, whatever was raised has been
\* logged, and the shutdown step has run exactly once.
NothingReachesCaller ==
    /\ run.shutdown_steps = (IF pc = "exit" THEN 1 ELSE 0)
    /\ pc = "exit"
       => /\ run.escaped = "None"
          /\ (configured.raised # NoError) => (run.logged = "ValueError")
          /\ (run.loop_outcome # "returned" /\ run.loop_started)
             => (run.logged = run.loop_outcome)

\* C28, amended: the shutdown step runs exactly once per run, when run_server
\* ends and not before. What configure_http_client raises and what mcp.run()
\* raises as an Exception is logged and does not reach the caller; a
\* BaseException that is not an Exception (KeyboardInterrupt) is not logged
\* and reaches the caller after the shutdown step.
OnlyBaseExceptionReachesCaller ==
    /\ run.shutdown_steps = (IF pc = "exit" THEN 1 ELSE 0)
    /\ pc = "exit"
       => /\ (configured.raised # NoError)
             => (run.logged = "ValueError" /\ run.escaped = "None")
          /\ (run.loop_started /\ run.loop_outcome = "Exception")
             => (run.logged = "Exception" /\ run.escaped = "None")
          /\ (run.loop_started /\ run.loop_outcome = "returned")
             => (run.logged = "None" /\ run.escaped = "None")
          /\ (run.loop_started /\ run.loop_outcome = "KeyboardInterrupt")
             => (run.logged = "None" /\ run.escaped = "KeyboardInterrupt")

\* run_server has ended after mcp.run() raised an Exception: it was logged,
\* the shutdown step ran once and nothing reached the caller
OnlyBaseExceptionReachesCallerWitness ==
    /\ pc = "exit"
    /\ run.loop_started
    /\ run.loop_outcome = "Exception"
    /\ run.logged = "Exception"
    /\ run.shutdown_steps = 1
    /\ run.escaped = "None"


\* C29 as stated: close_http_client is idempotent. Once it has been called
\* with the global set, and after any number of further calls, aclose() has
\* been called exactly once, the client is closed and the global is None;
\* called with the global None it changes nothing.
CloseIsIdempotent ==
    /\ run.close_calls > 0
       => /\ run.close_calls = 1
          /\ http_client = 0
          /\ \A i \in 1..Len(clients) : clients[i].is_closed
    /\ http_client = 0
       => \A a \in AcloseOutcomes :
             ENABLED call_close_http_client(a)
             => ENABLED (call_close_http_client(a) /\ UNCHANGED vars)

====
